---- MODULE Spec2Model ----
(***************************************************************************)
(* ProViewer (src/main_app.py): a Streamlit page with three flows          *)
(* (Predict, Upload, AlphaFold DB fetch) that each keep at most one        *)
(* structure in st.session_state, a confidence scorer get_average_plddt    *)
(* and a viewer key derivation make_viewer_key.                            *)
(*                                                                         *)
(* Representation.                                                         *)
(*  - st.session_state is a function from key names to values; a key is    *)
(*    "in st.session_state" iff it is in the DOMAIN.                       *)
(*  - A text-input value is a record [lead, tok, n, trail]: `lead` blanks, *)
(*    `n` copies of the token `tok`, `trail` blanks.  str.strip() drops    *)
(*    the blanks.                                                          *)
(*  - A response body / file content is a sequence of chunks.  A chunk is  *)
(*    an atom record with a B-factor (in hundredths), a malformed record   *)
(*    the Biopython parser raises on, or a byte run that is not UTF-8.     *)
(*  - Python None as a format tag is the string NoneValue.                 *)
(*  - B-factors and scores are exact rationals in hundredths: the float    *)
(*    num/den hundredths is the record [kind |-> "float", num, den].       *)
(*                                                                         *)
(* Streamlit, as the script relies on it.                                  *)
(*  - Every user action runs the script from the top; st.rerun() stops the *)
(*    run and starts another one with the session state as it is.          *)
(*  - An uncaught exception ends the run; what lies below it in the script *)
(*    is neither run nor drawn, and the session state keeps what the run   *)
(*    had assigned.                                                        *)
(*  - A keyed widget's value lives in st.session_state under its key;      *)
(*    popping the key resets the widget (the uploader then holds no file). *)
(*  - st.cache_data stores whatever the function returns, None included,   *)
(*    with the st.* calls made inside it, and stores nothing when the      *)
(*    function raises.                                                     *)
(*  - A button can be pressed only if the last run drew it.                *)
(***************************************************************************)
EXTENDS Integers, Sequences, FiniteSets, TLC

VARIABLES
    session_state,  \* st.session_state of the one browser session
    cache,          \* st.cache_data store of fold_protein (process wide)
    rendered,       \* widgets drawn by the last script run
    messages,       \* st.warning / st.error texts shown by the last script run
    calls,          \* functions and HTTP requests performed by the last user action
    outcome,        \* how the acquisition of the last user action ended
    escaped,        \* TRUE iff an exception left the script in the last run
    event,          \* the widget the user acted on last
    plddt_in,       \* arguments of a get_average_plddt call
    plddt_out,      \* its result
    key_in,         \* arguments of two make_viewer_key calls
    key_out         \* their results

vars == <<session_state, cache, rendered, messages, calls, outcome, escaped,
          event, plddt_in, plddt_out, key_in, key_out>>

appVars == <<session_state, cache, rendered, messages, calls, outcome, escaped, event>>
fnVars == <<plddt_in, plddt_out, key_in, key_out>>

(***************************************************************************)
(* Bounds of the model                                                     *)
(***************************************************************************)
MaxPad == 1        \* blanks around a typed text: lead + trail <= MaxPad
MaxAtoms == 2      \* chunks of a structure text given to the scorer
MaxContentLen == 2 \* characters of a content given to make_viewer_key

(***************************************************************************)
(* Program constants                                                       *)
(***************************************************************************)
MAX_SEQUENCE_LENGTH == 400
DEFAULT_SEQ == "PIAQIHILEGRSDEQKETLIREVSEAISRSLDAPLTSVRVIITEMAKGHFGIGGELASK"
DEFAULT_ID == "Q8W3K0"
ONE == 100             \* the literal 1.0 of `avg_plddt <= 1.0`, in hundredths
SCALE == 100           \* the factor of `avg_plddt *= 100`
DIGEST_WIDTH == 12     \* hexdigest()[:12]

NoneValue == "<None>"

(***************************************************************************)
(* Helpers on sequences                                                    *)
(***************************************************************************)
RECURSIVE Sum(_)
Sum(s) == IF s = <<>> THEN 0 ELSE Head(s) + Sum(Tail(s))

Last(s) == s[Len(s)]

RECURSIVE SeqsUpTo(_, _)
SeqsUpTo(S, n) ==
    IF n = 0 THEN {<<>>}
    ELSE LET shorter == SeqsUpTo(S, n - 1)
         IN  shorter \cup {Append(s, x) : s \in {t \in shorter : Len(t) = n - 1}, x \in S}

(***************************************************************************)
(* Structure texts and the Biopython parsers                               *)
(***************************************************************************)
Atom(b) == [k |-> "atom", b |-> b]
Malformed == [k |-> "malformed", b |-> 0]
BadBytes == [k |-> "badbytes", b |-> 0]

\* bytes.decode('utf-8'): raises UnicodeDecodeError on a byte run that is not UTF-8
Decodable(body) == \A i \in 1..Len(body) : body[i].k # "badbytes"

\* str.lower() on the format tags and name suffixes of the model
lower(s) ==
    CASE s = "PDB" -> "pdb"
      [] s = "Pdb" -> "pdb"
      [] s = "CIF" -> "cif"
      [] s = "Cif" -> "cif"
      [] s = "XYZ" -> "xyz"
      [] OTHER -> s

\* parser.get_structure("model", handle): raises on a malformed record
ParserRaises(text) == \E i \in 1..Len(text) : text[i].k # "atom"

\* [atom.bfactor for atom in structure.get_atoms()]
BFactorsOf(text) == [i \in 1..Len(text) |-> text[i].b]

None == [kind |-> "none", num |-> 0, den |-> 1]
Float(num, den) == [kind |-> "float", num |-> num, den |-> den]
Raised(exc) == [kind |-> exc, num |-> 0, den |-> 1]

\* get_average_plddt without the try/except around the parse
get_average_plddt_unguarded(structure_str, fmt) ==
    IF fmt = NoneValue THEN Raised("AttributeError")
    ELSE IF lower(fmt) \notin {"pdb", "cif"} THEN Raised("ValueError")
    ELSE IF ParserRaises(structure_str) THEN Raised("PDBConstructionException")
    ELSE LET b_factors == BFactorsOf(structure_str)
         IN  IF b_factors = <<>> THEN None
             ELSE IF Sum(b_factors) <= ONE * Len(b_factors)
                  THEN Float(Sum(b_factors) * SCALE, Len(b_factors))
                  ELSE Float(Sum(b_factors), Len(b_factors))

\* get_average_plddt with the scale test written `avg_plddt < 1.0`
get_average_plddt_strict(structure_str, fmt) ==
    IF fmt = NoneValue THEN Raised("AttributeError")
    ELSE IF lower(fmt) \notin {"pdb", "cif"} THEN Raised("ValueError")
    ELSE IF ParserRaises(structure_str) THEN None
    ELSE LET b_factors == BFactorsOf(structure_str)
         IN  IF b_factors = <<>> THEN None
             ELSE IF Sum(b_factors) < ONE * Len(b_factors)
                  THEN Float(Sum(b_factors) * SCALE, Len(b_factors))
                  ELSE Float(Sum(b_factors), Len(b_factors))

\* get_average_plddt(structure_str, fmt): avg = sum/len; avg <= 1.0 is
\* sum <= 1.0 * len since len > 0
get_average_plddt(structure_str, fmt) ==
    IF fmt = NoneValue THEN Raised("AttributeError")
    ELSE IF lower(fmt) \notin {"pdb", "cif"} THEN Raised("ValueError")
    ELSE IF ParserRaises(structure_str) THEN None
    ELSE LET b_factors == BFactorsOf(structure_str)
         IN  IF b_factors = <<>> THEN None
             ELSE IF Sum(b_factors) <= ONE * Len(b_factors)
                  THEN Float(Sum(b_factors) * SCALE, Len(b_factors))
                  ELSE Float(Sum(b_factors), Len(b_factors))

(***************************************************************************)
(* make_viewer_key                                                         *)
(***************************************************************************)
HexDigit(d) ==
    CASE d = 0 -> "0" [] d = 1 -> "1" [] d = 2 -> "2" [] d = 3 -> "3"
      [] d = 4 -> "4" [] d = 5 -> "5" [] d = 6 -> "6" [] d = 7 -> "7"
      [] d = 8 -> "8" [] d = 9 -> "9" [] d = 10 -> "a" [] d = 11 -> "b"
      [] d = 12 -> "c" [] d = 13 -> "d" [] d = 14 -> "e" [] OTHER -> "f"

\* the first `width` hex digits of a digest value, most significant first
RECURSIVE HexPrefix(_, _)
HexPrefix(h, width) ==
    IF width = 0 THEN ""
    ELSE HexPrefix(h \div 16, width - 1) \o HexDigit(h % 16)

\* (fmt + ":" + content).encode("utf-8"), for the format tags of the model
Utf8(fmt) ==
    CASE fmt = "pdb" -> <<112, 100, 98>>
      [] fmt = "cif" -> <<99, 105, 102>>
      [] OTHER -> <<>>

\* hashlib.md5, modelled by a 16-bit polynomial hash of the bytes, so that
\* digests collide within the bounds
RECURSIVE md5(_)
md5(bytes) ==
    IF bytes = <<>> THEN 7
    ELSE (md5(SubSeq(bytes, 1, Len(bytes) - 1)) * 31 + Last(bytes)) % 65536

\* make_viewer_key with the prefix left out of the key
make_viewer_key_no_prefix(prefix, content, fmt) ==
    "molstar-" \o fmt \o "-" \o HexPrefix(md5(Utf8(fmt) \o <<58>> \o content), DIGEST_WIDTH)

make_viewer_key(prefix, content, fmt) ==
    LET digest == HexPrefix(md5(Utf8(fmt) \o <<58>> \o content), DIGEST_WIDTH)
    IN  "molstar-" \o prefix \o "-" \o fmt \o "-" \o digest

(***************************************************************************)
(* Text inputs                                                             *)
(***************************************************************************)
Text(lead, tok, n, trail) ==
    [lead |-> lead, tok |-> IF n = 0 THEN "" ELSE tok, n |-> n, trail |-> trail]

\* str.strip()
strip(t) == [t EXCEPT !.lead = 0, !.trail = 0]

\* len(str)
TextLen(t) == t.lead + t.n * Len(t.tok) + t.trail

\* what a user types comes with MaxPad blanks on either side
Typed(tok, n) == Text(MaxPad, tok, n, MaxPad)

\* lengths of the sequences a user submits: none, one residue, the limit, one more
SeqLens == {0, 1, MAX_SEQUENCE_LENGTH, MAX_SEQUENCE_LENGTH + 1}
SeqInputs == {Typed("A", n) : n \in SeqLens}
IdInputs == {Typed("", 0), Typed("BADID0", 1), Text(0, DEFAULT_ID, 1, 0)}

(***************************************************************************)
(* The remote endpoints and the files a user can pick                      *)
(***************************************************************************)
Bodies == {<<Atom(5000)>>, <<BadBytes>>}
EmptyBody == <<>>

\* what requests.post / requests.get can meet: a RequestException before any
\* response (connection error, timeout), or a response with a status and a body
Responses ==
    {[kind |-> "neterr", status |-> 0, body |-> <<>>],
     [kind |-> "http", status |-> 404, body |-> <<>>]}
    \cup {[kind |-> "http", status |-> 200, body |-> b] : b \in Bodies}
\* the folding endpoint can also answer 200 with nothing in the body
FoldResponses == Responses \cup {[kind |-> "http", status |-> 200, body |-> EmptyBody]}
NoResponse == [kind |-> "none", status |-> 0, body |-> <<>>]

\* r.raise_for_status() raises HTTPError for 4xx and 5xx
RaisesForStatus(resp) == resp.status >= 400 /\ resp.status < 600

\* a file is its name, as the parts between the dots, and its bytes
File(name, data) == [name |-> name, data |-> data]
FileNames == {<<"structure", "pdb">>, <<"model", "v4", "CIF">>, <<"notes", "txt">>}
FileData == {<<Atom(5000)>>, <<BadBytes>>}

(***************************************************************************)
(* st.session_state                                                        *)
(***************************************************************************)
Has(ss, key) == key \in DOMAIN ss
Set(ss, key, value) == (key :> value) @@ ss
\* st.session_state.pop(key, None)
Pop(ss, key) == [k \in DOMAIN ss \ {key} |-> ss[k]]
\* st.session_state.get(key)
Get(ss, key) == IF Has(ss, key) THEN ss[key] ELSE NoneValue
\* a keyed widget takes its default only when its key holds no value yet
WithDefault(ss, key, default) == IF Has(ss, key) THEN ss ELSE Set(ss, key, default)

EmptyState == [k \in {} |-> NoneValue]

(***************************************************************************)
(* fold_protein under st.cache_data                                        *)
(***************************************************************************)
ReturnNone == [none |-> TRUE, text |-> <<>>]
Return(text) == [none |-> FALSE, text |-> text]

\* the function body, run on a cache miss
fold_protein_body(sequence, resp) ==
    IF resp.kind = "neterr"
    THEN [ret |-> ReturnNone, raised |-> FALSE, messages |-> {"API Error"},
          outcome |-> "network_error"]
    ELSE IF RaisesForStatus(resp)
    THEN [ret |-> ReturnNone, raised |-> FALSE, messages |-> {"API Error"},
          outcome |-> "http_error"]
    ELSE IF ~Decodable(resp.body)
    THEN [ret |-> ReturnNone, raised |-> TRUE, messages |-> {},
          outcome |-> "decode_error"]
    ELSE [ret |-> Return(resp.body), raised |-> FALSE, messages |-> {},
          outcome |-> "success"]

\* @st.cache_data: a stored return value (None included) is returned without
\* running the body, and the st.error recorded with it is replayed; a call that
\* raises stores nothing
fold_protein(sequence, store, resp) ==
    IF sequence \in DOMAIN store
    THEN [ret |-> store[sequence], raised |-> FALSE, cache |-> store,
          messages |-> IF store[sequence].none THEN {"API Error"} ELSE {},
          calls |-> {"fold_protein"},
          outcome |-> IF store[sequence].none THEN "cached_failure" ELSE "cached_success"]
    ELSE CHOOSE out \in
             {[ret |-> r.ret, raised |-> r.raised,
               cache |-> IF r.raised THEN store ELSE (sequence :> r.ret) @@ store,
               messages |-> r.messages,
               calls |-> {"fold_protein", "POST"},
               outcome |-> r.outcome] : r \in {fold_protein_body(sequence, resp)}} : TRUE

(***************************************************************************)
(* One run of the script.  A run is a record P: the session state and the  *)
(* cache as the run has left them so far, what it has drawn, shown and     *)
(* called, and its status: "run" while statements still execute, "exc"     *)
(* once an exception has left the script, "rerun" once do_rerun() has      *)
(* stopped it (st.rerun() ends the run at once and starts another).        *)
(* ev is the widget the user acted on and, for the two forms, what the     *)
(* endpoint answers if it is asked.                                        *)
(* An intermediate value v that later statements read is bound by          *)
(* CHOOSE out \in {e(x) : x \in {v}} : TRUE, that is e(v), v computed once. *)
(***************************************************************************)
Event(w, resp) == [w |-> w, resp |-> resp]
NoEvent == Event("none", NoResponse)

StartRun(ss, store) ==
    [ss |-> ss, cache |-> store, status |-> "run", rendered |-> {}, messages |-> {},
     calls |-> {}, outcome |-> "none"]

\* --- Predict tab ---------------------------------------------------------

\* the length test with `>=` in place of `>`
SequenceTooLong_off_by_one(sequence) == TextLen(sequence) >= MAX_SEQUENCE_LENGTH

\* len(sequence) > MAX_SEQUENCE_LENGTH
SequenceTooLong(sequence) == TextLen(sequence) > MAX_SEQUENCE_LENGTH

\* the store without its `if pdb_content:` guard
StorePredicted_unguarded(ss, ret) == Set(ss, "predicted_content", ret.text)

\* if pdb_content: st.session_state.predicted_content = pdb_content
StorePredicted(ss, ret) ==
    IF ~ret.none /\ ret.text # <<>> THEN Set(ss, "predicted_content", ret.text) ELSE ss

\* clear_predict that also drops the text area's value
clear_predict_and_input(ss) == Pop(Pop(ss, "predicted_content"), "predict_sequence")

clear_predict(ss) == Pop(ss, "predicted_content")

\* if submit_predict: ...
PredictSubmitHandler(P, sequence, resp) ==
    IF TextLen(sequence) = 0
    THEN [P EXCEPT !.messages = @ \cup {"Please enter a sequence."}]
    ELSE IF SequenceTooLong(sequence)
    THEN [P EXCEPT !.messages = @ \cup {"Sequence too long"}]
    ELSE CHOOSE out \in
             {IF r.raised
              THEN [P EXCEPT !.status = "exc", !.calls = @ \cup r.calls,
                             !.outcome = r.outcome]
              ELSE [P EXCEPT !.ss = StorePredicted(@, r.ret), !.cache = r.cache,
                             !.messages = @ \cup r.messages, !.calls = @ \cup r.calls,
                             !.outcome = r.outcome]
              : r \in {fold_protein(sequence, P.cache, resp)}} : TRUE

\* if "predicted_content" in st.session_state: ...
PredictShow(P, ev) ==
    IF ~Has(P.ss, "predicted_content") THEN P
    ELSE IF get_average_plddt(P.ss["predicted_content"], "pdb").kind \notin {"none", "float"}
    THEN [P EXCEPT !.status = "exc"]
    ELSE IF ev.w = "clear_predict"
    THEN [P EXCEPT !.ss = clear_predict(@), !.status = "rerun",
                   !.rendered = @ \cup {"clear_predict"}]
    ELSE [P EXCEPT !.rendered = @ \cup {"clear_predict"}]

\* with tab_predict: ...
PredictTab(P, ev) ==
    LET ss == WithDefault(P.ss, "predict_sequence", Text(0, DEFAULT_SEQ, 1, 0))
        sequence == strip(ss["predict_sequence"])
        P1 == [P EXCEPT !.ss = ss, !.rendered = @ \cup {"predict_form"}]
    IN  CHOOSE out \in
            {IF P2.status # "run" THEN P2 ELSE PredictShow(P2, ev)
             : P2 \in {IF ev.w = "predict_form"
                       THEN PredictSubmitHandler(P1, sequence, ev.resp)
                       ELSE P1}} : TRUE

\* --- Upload tab ----------------------------------------------------------

\* the format taken from the name without .lower()
UploadedFormat_as_typed(name) == Last(name)

\* uploaded.name.split('.')[-1].lower()
UploadedFormat(name) == lower(Last(name))

\* clear_upload without `st.session_state.pop("file_uploader", None)`
clear_upload_keep_widget(ss) == Pop(Pop(ss, "uploaded_content"), "uploaded_format")

clear_upload(ss) ==
    Pop(Pop(Pop(ss, "uploaded_content"), "uploaded_format"), "file_uploader")

\* if uploaded: persist content and format
UploadPersist(P) ==
    IF ~Has(P.ss, "file_uploader") THEN P
    ELSE LET uploaded == P.ss["file_uploader"]
         IN  IF ~Decodable(uploaded.data) THEN [P EXCEPT !.status = "exc"]
             ELSE [P EXCEPT !.ss = Set(Set(@, "uploaded_content", uploaded.data),
                                       "uploaded_format", UploadedFormat(uploaded.name))]

\* if "uploaded_content" in st.session_state: ...
UploadShow(P, ev) ==
    IF ~Has(P.ss, "uploaded_content") THEN P
    ELSE IF get_average_plddt(Get(P.ss, "uploaded_content"),
                              Get(P.ss, "uploaded_format")).kind \notin {"none", "float"}
    THEN [P EXCEPT !.status = "exc"]
    ELSE IF ev.w = "clear_upload"
    THEN [P EXCEPT !.ss = clear_upload(@), !.status = "rerun",
                   !.rendered = @ \cup {"clear_upload"}]
    ELSE [P EXCEPT !.rendered = @ \cup {"clear_upload"}]

\* with tab_upload: ...
UploadTab(P, ev) ==
    CHOOSE out \in
        {IF P1.status # "run" THEN P1 ELSE UploadShow(P1, ev)
         : P1 \in {UploadPersist([P EXCEPT !.rendered = @ \cup {"file_uploader"}])}} : TRUE

\* --- AlphaFold DB tab ----------------------------------------------------

\* the handler with the record written before raise_for_status() and decode
FetchSubmitHandler_write_first(P, uniprot_id, resp) ==
    IF resp.kind = "neterr" \/ RaisesForStatus(resp)
    THEN [P EXCEPT !.ss = Set(@, "af_structure", [content |-> <<>>, id |-> uniprot_id]),
                   !.messages = @ \cup {"Failed to fetch structure"},
                   !.calls = @ \cup {"GET"},
                   !.outcome = IF resp.kind = "neterr" THEN "network_error" ELSE "http_error"]
    ELSE IF ~Decodable(resp.body)
    THEN [P EXCEPT !.status = "exc", !.calls = @ \cup {"GET"}, !.outcome = "decode_error"]
    ELSE [P EXCEPT !.ss = Set(@, "af_structure", [content |-> resp.body, id |-> uniprot_id]),
                   !.calls = @ \cup {"GET"}, !.outcome = "success"]

\* try: r = requests.get(...); r.raise_for_status(); af_structure = {...}
\* except requests.RequestException: st.error(...)
FetchSubmitHandler(P, uniprot_id, resp) ==
    IF resp.kind = "neterr" \/ RaisesForStatus(resp)
    THEN [P EXCEPT !.messages = @ \cup {"Failed to fetch structure"},
                   !.calls = @ \cup {"GET"},
                   !.outcome = IF resp.kind = "neterr" THEN "network_error" ELSE "http_error"]
    ELSE IF ~Decodable(resp.body)
    THEN [P EXCEPT !.status = "exc", !.calls = @ \cup {"GET"}, !.outcome = "decode_error"]
    ELSE [P EXCEPT !.ss = Set(@, "af_structure", [content |-> resp.body, id |-> uniprot_id]),
                   !.calls = @ \cup {"GET"}, !.outcome = "success"]

clear_afdb(ss) == Pop(ss, "af_structure")

\* if "af_structure" in st.session_state: ...
FetchShow(P, ev) ==
    IF ~Has(P.ss, "af_structure") THEN P
    ELSE IF get_average_plddt(P.ss["af_structure"].content, "cif").kind \notin {"none", "float"}
    THEN [P EXCEPT !.status = "exc"]
    ELSE IF ev.w = "clear_afdb"
    THEN [P EXCEPT !.ss = clear_afdb(@), !.status = "rerun",
                   !.rendered = @ \cup {"clear_afdb"}]
    ELSE [P EXCEPT !.rendered = @ \cup {"clear_afdb"}]

\* with tab_fetch: ...
FetchTab(P, ev) ==
    LET ss == WithDefault(P.ss, "uniprot_id", Text(0, DEFAULT_ID, 1, 0))
        uniprot_id == strip(ss["uniprot_id"])
        P1 == [P EXCEPT !.ss = ss, !.rendered = @ \cup {"afdb_form"}]
    IN  CHOOSE out \in
            {IF P2.status # "run" THEN P2 ELSE FetchShow(P2, ev)
             : P2 \in {IF ev.w = "afdb_form" /\ TextLen(uniprot_id) # 0
                       THEN FetchSubmitHandler(P1, uniprot_id, ev.resp)
                       ELSE P1}} : TRUE

\* --- the whole script, top to bottom ---------------------------------------
ScriptRun(P, ev) ==
    CHOOSE out \in
        {IF B.status # "run" THEN B ELSE FetchTab(B, ev)
         : B \in {IF A.status # "run" THEN A ELSE UploadTab(A, ev)
                  : A \in {PredictTab(P, ev)}}} : TRUE

\* a user action runs the script; a run that ends in do_rerun() is followed by
\* a run without any widget event, whose output replaces the first run's
UserAction(ss, store, ev) ==
    CHOOSE out \in
        {IF first.status = "rerun"
         THEN ScriptRun([first EXCEPT !.status = "run", !.rendered = {}, !.messages = {}],
                        NoEvent)
         ELSE first
         : first \in {ScriptRun(StartRun(ss, store), ev)}} : TRUE

(***************************************************************************)
(* The session: one action per thing the user can do on the page           *)
(***************************************************************************)
Apply(R, w) ==
    /\ session_state' = R.ss
    /\ cache' = R.cache
    /\ rendered' = R.rendered
    /\ messages' = R.messages
    /\ calls' = R.calls
    /\ outcome' = R.outcome
    /\ escaped' = (R.status = "exc")
    /\ event' = w
    /\ UNCHANGED fnVars

NotCalled == [kind |-> "not_called", num |-> 0, den |-> 1]
FnIdle ==
    /\ plddt_in = [text |-> <<>>, fmt |-> "pdb"]
    /\ plddt_out = NotCalled
    /\ key_in = [p1 |-> "predict", p2 |-> "predict", content |-> <<>>, fmt |-> "pdb"]
    /\ key_out = <<>>

\* the first load of the page: empty session state, empty cache, no event
AppInit ==
    \E R \in {UserAction(EmptyState, [k \in {} |-> ReturnNone], NoEvent)} :
        /\ session_state = R.ss
        /\ cache = R.cache
        /\ rendered = R.rendered
        /\ messages = R.messages
        /\ calls = R.calls
        /\ outcome = R.outcome
        /\ escaped = (R.status = "exc")
        /\ event = "none"

Init == AppInit /\ FnIdle

\* the Predict button of predict_form, with the text area holding `text`
Predict(text, resp) ==
    /\ "predict_form" \in rendered
    /\ \E R \in {UserAction(Set(session_state, "predict_sequence", text), cache,
                        Event("predict_form", resp))} :
           Apply(R, "predict_form")

\* the Fetch button of afdb_form, with the text input holding `text`
Fetch(text, resp) ==
    /\ "afdb_form" \in rendered
    /\ \E R \in {UserAction(Set(session_state, "uniprot_id", text), cache,
                        Event("afdb_form", resp))} :
           Apply(R, "afdb_form")

\* a file picked in the uploader; type=['pdb', 'cif'] admits only these suffixes
SelectFile(f) ==
    /\ "file_uploader" \in rendered
    /\ lower(Last(f.name)) \in {"pdb", "cif"}
    /\ \E R \in {UserAction(Set(session_state, "file_uploader", f), cache,
                        Event("file_uploader", NoResponse))} :
           Apply(R, "file_uploader")

\* the picked file removed in the uploader
RemoveFile ==
    /\ "file_uploader" \in rendered
    /\ Has(session_state, "file_uploader")
    /\ \E R \in {UserAction(Pop(session_state, "file_uploader"), cache,
                        Event("file_removed", NoResponse))} :
           Apply(R, "file_removed")

ClearPredict ==
    /\ "clear_predict" \in rendered
    /\ \E R \in {UserAction(session_state, cache, Event("clear_predict", NoResponse))} :
           Apply(R, "clear_predict")

ClearUpload ==
    /\ "clear_upload" \in rendered
    /\ \E R \in {UserAction(session_state, cache, Event("clear_upload", NoResponse))} :
           Apply(R, "clear_upload")

ClearAfdb ==
    /\ "clear_afdb" \in rendered
    /\ \E R \in {UserAction(session_state, cache, Event("clear_afdb", NoResponse))} :
           Apply(R, "clear_afdb")

Next ==
    \/ \E text \in SeqInputs, resp \in FoldResponses : Predict(text, resp)
    \/ \E text \in IdInputs, resp \in Responses : Fetch(text, resp)
    \/ \E name \in FileNames, data \in FileData : SelectFile(File(name, data))
    \/ RemoveFile
    \/ ClearPredict
    \/ ClearUpload
    \/ ClearAfdb

Spec == Init /\ [][Next]_vars

(***************************************************************************)
(* get_average_plddt on its own: the arguments are drawn, the call is made *)
(***************************************************************************)
BFactorValues == {-500, 0, 50, 100, 150, 5000, 10000, 15000}
ScoreTexts == SeqsUpTo({Atom(b) : b \in BFactorValues} \cup {Malformed}, MaxAtoms)
ScoreFormats == {"pdb", "cif", "PDB", "xyz", NoneValue}

InitScore ==
    /\ AppInit
    /\ plddt_in \in [text : ScoreTexts, fmt : ScoreFormats]
    /\ plddt_out = NotCalled
    /\ key_in = [p1 |-> "predict", p2 |-> "predict", content |-> <<>>, fmt |-> "pdb"]
    /\ key_out = <<>>

CallScore ==
    /\ plddt_out = NotCalled
    /\ plddt_out' = get_average_plddt(plddt_in.text, plddt_in.fmt)
    /\ UNCHANGED <<appVars, plddt_in, key_in, key_out>>

NextScore == CallScore

SpecScore == InitScore /\ [][NextScore]_vars

(***************************************************************************)
(* make_viewer_key on its own: two calls that differ at most in the prefix *)
(***************************************************************************)
Labels == {"predict", "upload", "afdb", "afdb-cif"}
KeyContents == SeqsUpTo({65, 66}, MaxContentLen)

InitKey ==
    /\ AppInit
    /\ plddt_in = [text |-> <<>>, fmt |-> "pdb"]
    /\ plddt_out = NotCalled
    /\ key_in \in [p1 : Labels, p2 : Labels, content : KeyContents, fmt : {"pdb", "cif"}]
    /\ key_out = <<>>

CallKey ==
    /\ key_out = <<>>
    /\ key_out' = <<make_viewer_key(key_in.p1, key_in.content, key_in.fmt),
                    make_viewer_key(key_in.p2, key_in.content, key_in.fmt)>>
    /\ UNCHANGED <<appVars, plddt_in, plddt_out, key_in>>

NextKey == CallKey

SpecKey == InitKey /\ [][NextKey]_vars

(***************************************************************************)
(* Properties                                                              *)
(***************************************************************************)
\* the value stored under a key, as a sequence of zero or one element
Rec(ss, key) == IF Has(ss, key) THEN <<ss[key]>> ELSE <<>>

PredictRecord(ss) == Rec(ss, "predicted_content")
UploadRecord(ss) == <<Rec(ss, "uploaded_content"), Rec(ss, "uploaded_format")>>
FetchRecord(ss) == Rec(ss, "af_structure")
TextInputs(ss) == <<Rec(ss, "predict_sequence"), Rec(ss, "uniprot_id")>>
FilePicked(ss) == Rec(ss, "file_uploader")

AcquisitionFailed == {"network_error", "http_error", "decode_error"}
SubmittedSequence(ss) == strip(ss["predict_sequence"])

\* C1: the Clear action of a flow removes that flow's stored record
\* (predicted_content; uploaded_content and uploaded_format; af_structure) and
\* leaves the stored records of the two other flows as they were.
C1_ClearRemovesOnlyItsRecord ==
    [][/\ event' = "clear_predict" =>
            /\ PredictRecord(session_state') = <<>>
            /\ UploadRecord(session_state') = UploadRecord(session_state)
            /\ FetchRecord(session_state') = FetchRecord(session_state)
       /\ event' = "clear_upload" =>
            /\ UploadRecord(session_state') = <<<<>>, <<>>>>
            /\ PredictRecord(session_state') = PredictRecord(session_state)
            /\ FetchRecord(session_state') = FetchRecord(session_state)
       /\ event' = "clear_afdb" =>
            /\ FetchRecord(session_state') = <<>>
            /\ PredictRecord(session_state') = PredictRecord(session_state)
            /\ UploadRecord(session_state') = UploadRecord(session_state)]_vars

\* the upload was cleared while the two other flows hold a record
C1_Witness ==
    /\ event = "clear_upload"
    /\ UploadRecord(session_state) = <<<<>>, <<>>>>
    /\ PredictRecord(session_state) # <<>>
    /\ FetchRecord(session_state) # <<>>

\* C2: a failed acquisition (network error, non-2xx response, decode failure, or
\* a failure answered from the cache) leaves the flow's stored record as it was,
\* also when the flow is populated; the record changes only on success.
C2_FailureLeavesRecord ==
    [][/\ event' = "predict_form" =>
            /\ outcome' \in AcquisitionFailed \cup {"cached_failure"} =>
                   PredictRecord(session_state') = PredictRecord(session_state)
            /\ PredictRecord(session_state') # PredictRecord(session_state) =>
                   outcome' \in {"success", "cached_success"}
       /\ event' = "afdb_form" =>
            /\ outcome' \in AcquisitionFailed =>
                   FetchRecord(session_state') = FetchRecord(session_state)
            /\ FetchRecord(session_state') # FetchRecord(session_state) =>
                   outcome' = "success"]_vars

\* a fetch failed for an accession other than the one of the record kept
C2_Witness ==
    /\ event = "afdb_form"
    /\ outcome = "http_error"
    /\ Has(session_state, "af_structure")
    /\ session_state["af_structure"].id # strip(session_state["uniprot_id"])

\* C3: a Predict submission whose stripped sequence is empty or longer than
\* MAX_SEQUENCE_LENGTH calls neither fold_protein nor the endpoint and leaves
\* predicted_content unchanged; one of length 1..MAX_SEQUENCE_LENGTH calls
\* fold_protein.
C3_LengthGate ==
    [][event' = "predict_form" =>
         IF \/ TextLen(SubmittedSequence(session_state')) = 0
            \/ TextLen(SubmittedSequence(session_state')) > MAX_SEQUENCE_LENGTH
         THEN /\ calls' = {}
              /\ PredictRecord(session_state') = PredictRecord(session_state)
         ELSE "fold_protein" \in calls']_vars

\* a sequence of exactly the maximum length, typed with blanks around it, was posted
C3_Witness ==
    /\ event = "predict_form"
    /\ TextLen(SubmittedSequence(session_state)) = MAX_SEQUENCE_LENGTH
    /\ TextLen(session_state["predict_sequence"]) > MAX_SEQUENCE_LENGTH
    /\ "POST" \in calls

InRange(r) == r.kind = "float" /\ 0 <= r.num /\ r.num <= 100 * ONE * r.den

\* C4 as stated: for every text and every format tag get_average_plddt returns
\* a number in [0,100] or None, and never raises.
C4_ScoreInRangeOrNone ==
    plddt_out # NotCalled => plddt_out.kind = "none" \/ InRange(plddt_out)

\* C4 amended: for a tag that is 'pdb' or 'cif' up to case the call does not
\* raise and returns None or a number, which is in [0,100] when every
\* confidence value of the text is; for any other tag the call raises.
C4_ScoreInRangeForKnownFormat ==
    plddt_out # NotCalled =>
        IF plddt_in.fmt \in {"pdb", "cif", "PDB", "CIF"}
        THEN /\ plddt_out.kind \in {"none", "float"}
             /\ (/\ plddt_out.kind = "float"
                 /\ \A i \in 1..Len(plddt_in.text) :
                        0 <= plddt_in.text[i].b /\ plddt_in.text[i].b <= 100 * ONE)
                => InRange(plddt_out)
        ELSE plddt_out.kind \in {"ValueError", "AttributeError"}

\* an upper-case tag and a text whose score is exactly 100
C4_Witness ==
    /\ plddt_in.fmt = "PDB"
    /\ plddt_out.kind = "float"
    /\ plddt_out.num = 100 * ONE * plddt_out.den

\* C5 as stated: when a prediction attempt for a sequence has failed,
\* submitting the same sequence again posts to the endpoint again.
C5_RetryPostsAgain ==
    [][(/\ event = "predict_form"
        /\ outcome \in AcquisitionFailed
        /\ event' = "predict_form"
        /\ SubmittedSequence(session_state') = SubmittedSequence(session_state))
       => "POST" \in calls']_vars

\* C6 as stated: after any failed acquisition of the Predict or the Fetch flow
\* a message is shown and no exception has left the script.
C6_FailureIsReported ==
    (event \in {"predict_form", "afdb_form"} /\ outcome \in AcquisitionFailed)
        => ~escaped /\ messages # {}

\* C7 as stated: a Clear action leaves every input widget's value as it was.
C7_ClearKeepsAllInputs ==
    [][event' \in {"clear_predict", "clear_upload", "clear_afdb"} =>
         /\ TextInputs(session_state') = TextInputs(session_state)
         /\ FilePicked(session_state') = FilePicked(session_state)]_vars

\* C7 amended: the Clear actions of Predict and Fetch leave every input
\* widget's value as it was; the Clear action of Upload leaves the two text
\* inputs as they were and empties the file uploader's selection.
C7_ClearKeepsTextInputs ==
    [][/\ event' \in {"clear_predict", "clear_afdb"} =>
            /\ TextInputs(session_state') = TextInputs(session_state)
            /\ FilePicked(session_state') = FilePicked(session_state)
       /\ event' = "clear_upload" =>
            /\ TextInputs(session_state') = TextInputs(session_state)
            /\ FilePicked(session_state') = <<>>]_vars

\* the upload was cleared with typed values in both text inputs
C7_Witness ==
    /\ event = "clear_upload"
    /\ FilePicked(session_state) = <<>>
    /\ session_state["predict_sequence"] \in SeqInputs
    /\ session_state["uniprot_id"] = Typed("BADID0", 1)

\* C8: two make_viewer_key calls with the same content and format give the
\* same key when the labels are equal and different keys when the labels differ.
C8_KeySeparatesLabels ==
    key_out # <<>> =>
        /\ key_in.p1 = key_in.p2 => key_out[1] = key_out[2]
        /\ key_in.p1 # key_in.p2 => key_out[1] # key_out[2]

\* the keys of a label and of that label followed by "-" and the format
C8_Witness ==
    /\ key_out # <<>>
    /\ key_in.p1 = "afdb"
    /\ key_in.p2 = "afdb-cif"
    /\ key_in.fmt = "cif"

\* C9: for a text of atoms only, with mean confidence m, the score is m * 100
\* when m <= 1.0 and m when m > 1.0; it is the number 0, not None, when every
\* value is zero; it is None for an empty or malformed text.
C9_ScaleRule ==
    (plddt_out # NotCalled /\ plddt_in.fmt \in {"pdb", "cif", "PDB", "CIF"}) =>
        LET text == plddt_in.text
            n == Len(text)
            total == Sum([i \in 1..n |-> text[i].b])
        IN  IF n = 0 \/ \E i \in 1..n : text[i].k # "atom"
            THEN plddt_out = None
            ELSE /\ plddt_out.kind = "float"
                 /\ total <= ONE * n => plddt_out.num * n = 100 * total * plddt_out.den
                 /\ total > ONE * n => plddt_out.num * n = total * plddt_out.den
                 /\ (\A i \in 1..n : text[i].b = 0) => plddt_out.num = 0

\* two atoms of confidence 0.5 and 1.5: the mean is exactly 1.0 and the score 100
C9_Witness ==
    /\ plddt_in.text = <<Atom(50), Atom(150)>>
    /\ plddt_out.kind = "float"
    /\ plddt_out.num = 100 * ONE * plddt_out.den

\* C10: uploaded_content is in the session state iff uploaded_format is, the
\* format is 'pdb' or 'cif', and while a decodable file is picked it is the
\* lower-cased last suffix of that file's name.
C10_UploadRecordWellFormed ==
    /\ Has(session_state, "uploaded_content") <=> Has(session_state, "uploaded_format")
    /\ Has(session_state, "uploaded_format") =>
           session_state["uploaded_format"] \in {"pdb", "cif"}
    /\ (Has(session_state, "file_uploader") /\ Decodable(session_state["file_uploader"].data)) =>
           /\ Has(session_state, "uploaded_format")
           /\ Last(session_state["file_uploader"].name) \in {"pdb", "PDB"}
                  => session_state["uploaded_format"] = "pdb"
           /\ Last(session_state["file_uploader"].name) \in {"cif", "CIF"}
                  => session_state["uploaded_format"] = "cif"

\* a file with an upper-case suffix is stored with the lower-case format
C10_Witness ==
    /\ Has(session_state, "file_uploader")
    /\ Last(session_state["file_uploader"].name) = "CIF"
    /\ Has(session_state, "uploaded_content")
    /\ session_state["uploaded_format"] = "cif"

====
